---- MODULE Spec2Model ----
(***************************************************************************)
(* Model of generate_deletes/delete_records.py (Python 2): a command-line  *)
(* script that validates its arguments, scrapes the schema of a database   *)
(* from the output of the tql tool, turns every row of a "|"-delimited      *)
(* file into a DELETE statement and pipes the statements into tql.         *)
(*                                                                         *)
(* Text is modelled as a sequence of one-character strings, so that        *)
(* split, strip and the substring test are computed as Python computes     *)
(* them.  A generated statement is the sequence of the pieces the code     *)
(* concatenates; a literal piece of a format string is a one-element       *)
(* sequence holding that literal.                                          *)
(***************************************************************************)
EXTENDS Integers, Sequences, FiniteSets, TLC

VARIABLES
    env,    \* what the run finds outside itself: files and tql's answers
    run,    \* the state of one execution of main()
    twin    \* a second execution, used only by SpecSep

vars == <<env, run, twin>>

----------------------------------------------------------------------------
(* Bounds of the model. *)

MaxRows == 2        \* lines after the header in the delete file
MaxTables == 2      \* lines in the answer to "show tables"

----------------------------------------------------------------------------
(* Characters and the texts the model uses. *)

PIPE == "|"
COMMA == ","
NL == "\n"
SPACE == " "

None == <<"None">>

s_int == <<"i", "n", "t">>
s_double == <<"d", "o", "u", "b", "l", "e">>
s_bigint == <<"b", "i", "g", "i", "n", "t">>
s_char == <<"c", "h", "a", "r">>
s_None == <<"N", "o", "n", "e">>

n_d == <<"d">>      \* a database name
n_s == <<"s">>      \* a schema name
n_t == <<"t">>      \* a table name
n_u == <<"u">>      \* another table name
n_f == <<"f">>      \* the path of the delete file

----------------------------------------------------------------------------
(* Python's str and dict operations. *)

\* str.split(sep) for a one-character separator: always at least one field.
RECURSIVE Split(_, _)
Split(s, sep) ==
    IF \A i \in 1..Len(s) : s[i] # sep
    THEN <<s>>
    ELSE LET i == CHOOSE k \in 1..Len(s) :
                      s[k] = sep /\ \A j \in 1..(k - 1) : s[j] # sep
         IN  <<SubSeq(s, 1, i - 1)>> \o Split(SubSeq(s, i + 1, Len(s)), sep)

\* str.strip(): drops leading and trailing whitespace.
RECURSIVE Strip(_)
Strip(s) ==
    IF s = <<>> THEN s
    ELSE IF Head(s) = SPACE THEN Strip(Tail(s))
    ELSE IF s[Len(s)] = SPACE THEN Strip(SubSeq(s, 1, Len(s) - 1))
    ELSE s

\* sub in s
Contains(sub, s) ==
    \E i \in 0..(Len(s) - Len(sub)) : SubSeq(s, i + 1, i + Len(sub)) = sub

EmptyDict == [k \in {} |-> <<>>]

DictGet(d, k, default) == IF k \in DOMAIN d THEN d[k] ELSE default

DictPut(d, k, v) == [x \in (DOMAIN d) \cup {k} |-> IF x = k THEN v ELSE d[x]]

----------------------------------------------------------------------------
(* The environment: the delete file, the stale temporary file and the      *)
(* answers of tql.  It is chosen once, in Init, and never changes.         *)

\* Sequences over S of length at most n.
RECURSIVE SeqsUpTo(_, _)
SeqsUpTo(S, n) ==
    IF n = 0 THEN {<<>>}
    ELSE LET shorter == SeqsUpTo(S, n - 1)
         IN  shorter \cup {Append(q, x) : q \in shorter, x \in S}

\* Lines of a delete file: header lines and data lines.
HeaderLines == { <<"a", PIPE, "b">>, <<"a">> }
DataLines == { <<"1", PIPE, "x">>, <<>>, <<"2", COMMA, "y">> }

ValueFiles ==
    {<<>>} \cup {<<h>> \o rows : h \in HeaderLines, rows \in SeqsUpTo(DataLines, MaxRows)}

\* Lines tql prints for "show tables": schema|table, with or without padding.
TableListLines == { <<"s", PIPE, SPACE, "t", SPACE>>, <<"s", PIPE, "u">>, <<"-", "-">> }

\* What tql prints for "show table": name|x|type lines, rulers, short lines.
ColumnAnswers ==
    { <<>>,
      << <<"a", PIPE, "k", PIPE>> \o s_int, <<"b", PIPE, "k", PIPE>> \o s_char >>,
      << <<"-", "-">>, <<"a", SPACE, PIPE, "k", PIPE, SPACE>> \o s_bigint \o <<SPACE>> >>,
      << <<"a", PIPE, "k", PIPE>> \o s_char, <<"b", PIPE, "k", PIPE>> \o s_double >>,
      << <<"a", PIPE, "k", PIPE>> \o s_double, <<"b", PIPE, "k">> >> }

\* What tql prints for "show table" of a table the run is not asked about.
OtherColumnAnswers ==
    { << <<"a", PIPE, "k", PIPE>> \o s_char >>,
      << <<"c", PIPE, "k">> >> }

\* A statement left in /tmp/deleteme by an earlier run.
StaleStmt == << <<"DELETE FROM ">>, <<"o">>, <<";\n">> >>

Separators == {PIPE, COMMA}

\* The text a tool prints: every line followed by a newline.
RECURSIVE Text(_)
Text(lines) == IF lines = <<>> THEN <<>> ELSE Head(lines) \o <<NL>> \o Text(Tail(lines))

Args ==
    [filename : {None, n_f}, table : {None, n_t}, database : {None, n_d},
     schema : {n_s}, separator : Separators]

Envs ==
    [isfile : BOOLEAN,
     valuefile : ValueFiles,
     tmpfile : {<<>>, <<StaleStmt>>},
     show_tables : SeqsUpTo(TableListLines, MaxTables),
     show_table : {(n_t :> at) @@ (n_u :> au) :
                      at \in ColumnAnswers, au \in OtherColumnAnswers},
     reverse_keys : BOOLEAN]

----------------------------------------------------------------------------
(* The external world as the script calls it. *)

\* os.path.isfile(path)
isfile(e, path) == path = n_f /\ e.isfile

\* check_output('echo "show tables ...;" | tql') and 'echo "show table ...;" | tql'
tql(e, call) ==
    IF call.kind = "show_tables" THEN Text(e.show_tables)
    ELSE Text(e.show_table[call.arg[3]])

----------------------------------------------------------------------------
(* main(): the state of a run after parse_args. *)

InitRun(a, e) ==
    [args |-> a,
     pc |-> "check_args",
     stderr |-> <<>>,
     stdout |-> <<>>,
     calls |-> <<>>,             \* the subprocess calls made so far, in order
     descriptions |-> EmptyDict, \* the module-level schema map
     table_list |-> <<>>,
     ti |-> 1,                   \* the line of table_list the loop is at
     columns |-> EmptyDict,
     line_num |-> 0,             \* DictReader.line_num: lines consumed
     rows |-> <<>>,              \* the dicts the reader has yielded
     tmpfile |-> e.tmpfile,      \* the content of /tmp/deleteme
     deletefile_open |-> FALSE,
     nbr_deletes |-> 0,
     piped |-> <<>>,             \* what "cat /tmp/deleteme | tql" sent to tql
     error |-> "none"]

----------------------------------------------------------------------------
(* check_args *)

\* check_args without "if args.database is None"
check_args_no_database(args, e) ==
    /\ ~(args.filename = None \/ ~isfile(e, args.filename))
    /\ args.table # None

check_args(args, e) ==
    /\ ~(args.filename = None \/ ~isfile(e, args.filename))
    /\ args.table # None
    /\ args.database # None

check_args_eprint(args, e) ==
    (IF args.filename = None \/ ~isfile(e, args.filename)
        THEN <<"Delete file was not found.">> ELSE <<>>)
    \o (IF args.table = None THEN <<"Table was not specified.">> ELSE <<>>)
    \o (IF args.database = None THEN <<"Database was not specified.">> ELSE <<>>)

do_check_args(r, e) ==
    [r EXCEPT !.stderr = r.stderr \o check_args_eprint(r.args, e),
              !.pc = IF check_args(r.args, e) THEN "show_tables" ELSE "done"]

----------------------------------------------------------------------------
(* read_descriptions *)

do_show_tables(r, e) ==
    LET call == [kind |-> "show_tables", arg |-> <<r.args.database>>]
    IN  [r EXCEPT !.calls = Append(r.calls, call),
                  !.table_list = Split(tql(e, call), NL),
                  !.ti = 1,
                  !.pc = "table_loop"]

\* the test written as len(table_details) >= 3
is_table_line_three(table_details) == Len(table_details) >= 3

\* if len(table_details) >= 2
is_table_line(table_details) == Len(table_details) >= 2

\* if len(column_details) >= 2
is_column_line(column_details) == Len(column_details) >= 2

\* The loop over column_list: the table dict it leaves, and whether
\* column_details[2] raised IndexError on the way.
RECURSIVE parse_columns(_, _)
parse_columns(column_list, table) ==
    IF column_list = <<>> THEN [ok |-> TRUE, table |-> table]
    ELSE LET column_details == Split(Head(column_list), PIPE)
         IN  IF is_column_line(column_details)
             THEN IF Len(column_details) < 3
                  THEN [ok |-> FALSE, table |-> table]
                  ELSE parse_columns(
                           Tail(column_list),
                           DictPut(table, Strip(column_details[1]), Strip(column_details[3])))
             ELSE parse_columns(Tail(column_list), table)

\* Where the loop over table_list goes after the line at r.ti.
next_table_line(r) ==
    [r EXCEPT !.ti = r.ti + 1,
              !.pc = IF r.ti + 1 > Len(r.table_list) THEN "generate_deletes" ELSE "table_loop"]

do_skip_table_line(r, e) == next_table_line(r)

do_describe_table(r, e) ==
    LET table_details == Split(r.table_list[r.ti], PIPE)
        schema_name == Strip(table_details[1])
        table_name == Strip(table_details[2])
        schema == DictGet(r.descriptions, schema_name, EmptyDict)
        known == schema_name \in DOMAIN r.descriptions /\ table_name \in DOMAIN schema
        table == DictGet(schema, table_name, EmptyDict)
        call == [kind |-> "show_table",
                 arg |-> <<r.args.database, schema_name, table_name>>]
        parsed == parse_columns(Split(tql(e, call), NL), table)
        stored == DictPut(r.descriptions, schema_name,
                          DictPut(schema, table_name, parsed.table))
    IN  IF parsed.ok
        THEN next_table_line([r EXCEPT !.calls = Append(r.calls, call),
                                       !.descriptions = stored])
        ELSE \* IndexError: an already stored table dict was updated in place
             [r EXCEPT !.calls = Append(r.calls, call),
                       !.descriptions = IF known THEN stored ELSE r.descriptions,
                       !.error = "IndexError",
                       !.pc = "crashed"]

----------------------------------------------------------------------------
(* csv.DictReader(valuefile, delimiter="|", quotechar='"') *)

\* delimiter=args.separator
csv_delimiter_separator(args) == args.separator

\* delimiter="|": args.separator is not consulted.
csv_delimiter(args) == PIPE

\* csv.reader on one line: a blank line is the empty list.  (No text of the
\* model holds the quote character.)
csv_row(line, delim) == IF line = <<>> THEN <<>> ELSE Split(line, delim)

\* DictReader.fieldnames: the first line of the file.
fieldnames(file, delim) == csv_row(file[1], delim)

\* DictReader.next: the index of the line the next dict is made of, skipping
\* the header and blank lines; 0 when the reader raises StopIteration.
next_row_index(file, line_num, delim) ==
    LET start == IF line_num = 0 THEN 1 ELSE line_num
        later == {i \in (start + 1)..Len(file) : csv_row(file[i], delim) # <<>>}
    IN  IF later = {} THEN 0 ELSE CHOOSE i \in later : \A j \in later : i <= j

\* dict(zip(fieldnames, row)) for the first n pairs
RECURSIVE zip_dict(_, _, _)
zip_dict(fn, row, n) ==
    IF n = 0 THEN EmptyDict ELSE DictPut(zip_dict(fn, row, n - 1), fn[n], row[n])

\* for key in fieldnames[lr:]: d[key] = restval
RECURSIVE fill_restval(_, _, _)
fill_restval(d, fn, lr) ==
    IF lr >= Len(fn) THEN d ELSE fill_restval(DictPut(d, fn[lr + 1], None), fn, lr + 1)

row_dict(fn, row) ==
    LET lf == Len(fn)
        lr == Len(row)
        d == zip_dict(fn, row, IF lf < lr THEN lf ELSE lr)
    IN  IF lf < lr THEN DictPut(d, None, SubSeq(row, lf + 1, lr))
        ELSE IF lf > lr THEN fill_restval(d, fn, lr)
        ELSE d

RECURSIVE Dedupe(_)
Dedupe(q) ==
    IF q = <<>> THEN <<>>
    ELSE LET front == Dedupe(SubSeq(q, 1, Len(q) - 1))
             last == q[Len(q)]
         IN  IF \E i \in 1..Len(front) : front[i] = last THEN front ELSE Append(front, last)

Reverse(q) == [i \in 1..Len(q) |-> q[Len(q) + 1 - i]]

\* values.keys(): every key once, in the order of the dict's hash table,
\* which is the header's order or its reverse.
dict_keys(d, fn, reverse) ==
    LET inorder == Dedupe(fn) \o (IF None \in DOMAIN d THEN <<None>> ELSE <<>>)
    IN  IF reverse THEN Reverse(inorder) ELSE inorder

----------------------------------------------------------------------------
(* generate_deletes *)

\* the test made on the schema alone
columns_found_schema_only(descriptions, args) == args.schema \in DOMAIN descriptions

\* columns = descriptions.get(args.schema, {}).get(args.table, None);
\* columns is not None
columns_found(descriptions, args) ==
    args.table \in DOMAIN DictGet(descriptions, args.schema, EmptyDict)

do_table_not_found(r, e) ==
    [r EXCEPT !.stderr = Append(r.stderr, "Table not found."),
              !.pc = "done"]

\* open(tmpfile, "a") keeps what the file holds
open_a(content) == content

\* open(tmpfile, "w") truncates the file.
open_w(content) == <<>>

do_open_files(r, e) ==
    [r EXCEPT !.columns = DictGet(DictGet(r.descriptions, r.args.schema, EmptyDict),
                                  r.args.table, EmptyDict),
              !.tmpfile = open_w(r.tmpfile),
              !.deletefile_open = TRUE,
              !.pc = "row_loop"]

\* "int" in columns[key] alone
is_numeric_int_only(column_type) == Contains(s_int, column_type)

\* "int" in columns[key] or "double" in columns[key]
is_numeric(column_type) == Contains(s_int, column_type) \/ Contains(s_double, column_type)

\* "%s" % value: a missing field is None, the fields beyond the header are a list.
RECURSIVE repr_list(_)
repr_list(l) ==
    IF l = <<>> THEN <<>>
    ELSE <<"'">> \o Head(l) \o <<"'">>
         \o (IF Len(l) > 1 THEN <<",", SPACE>> ELSE <<>>) \o repr_list(Tail(l))

str(key, value) ==
    IF key = None THEN <<"[">> \o repr_list(value) \o <<"]">>
    ELSE IF value = None THEN s_None
    ELSE value

\* first never consulted: " AND " before every condition
joiner_always(first) == << <<" AND ">> >>

\* if not first: delete_stmt += " AND "
joiner(first) == IF first THEN <<>> ELSE << <<" AND ">> >>

\* only the first key looked up
key_error_first_only(keys, columns) == keys # <<>> /\ keys[1] \notin DOMAIN columns

\* columns[key] raises KeyError for a key the table's description lacks.
key_error(keys, columns) == \E i \in 1..Len(keys) : keys[i] \notin DOMAIN columns

condition(key, value, column_type) ==
    IF is_numeric(column_type)
    THEN <<key, <<" = ">>, str(key, value)>>
    ELSE <<key, <<" = ">>, <<"'">> \o str(key, value) \o <<"'">> >>

\* The loop over values.keys()
RECURSIVE conditions(_, _, _, _)
conditions(keys, values, columns, first) ==
    IF keys = <<>> THEN <<>>
    ELSE joiner(first)
         \o condition(Head(keys), values[Head(keys)], DictGet(columns, Head(keys), <<>>))
         \o conditions(Tail(keys), values, columns, FALSE)

delete_stmt(args, keys, values, columns) ==
    << <<"DELETE FROM ">>, args.database, <<".">>, args.schema, <<".">>, args.table,
       <<" WHERE ">> >>
    \o conditions(keys, values, columns, TRUE)
    \o << <<";\n">> >>

\* the statement also piped to tql as soon as it is written
write_stmt_and_pipe(r, stmt) ==
    [r EXCEPT !.tmpfile = Append(r.tmpfile, stmt),
              !.nbr_deletes = r.nbr_deletes + 1,
              !.calls = Append(r.calls, [kind |-> "cat_tmpfile", arg |-> <<>>]),
              !.piped = Append(r.tmpfile, stmt)]

\* deletefile.write(delete_stmt); nbr_deletes += 1
write_stmt(r, stmt) ==
    [r EXCEPT !.tmpfile = Append(r.tmpfile, stmt),
              !.nbr_deletes = r.nbr_deletes + 1]

\* One turn of "for values in filereader", for the row at line idx.
do_next_row(r, e) ==
    LET delim == csv_delimiter(r.args)
        idx == next_row_index(e.valuefile, r.line_num, delim)
        fn == fieldnames(e.valuefile, delim)
        values == row_dict(fn, csv_row(e.valuefile[idx], delim))
        keys == dict_keys(values, fn, e.reverse_keys)
        read == [r EXCEPT !.line_num = idx, !.rows = Append(r.rows, values)]
    IN  IF key_error(keys, r.columns)
        THEN [read EXCEPT !.error = "KeyError",
                          !.deletefile_open = FALSE,
                          !.pc = "crashed"]
        ELSE write_stmt(read, delete_stmt(r.args, keys, values, r.columns))

\* StopIteration: both with blocks end and close their files.
do_close_files(r, e) ==
    [r EXCEPT !.line_num = Len(e.valuefile),
              !.deletefile_open = FALSE,
              !.pc = "execute"]

\* subprocess.call("cat /tmp/deleteme | tql")
do_execute(r, e) ==
    [r EXCEPT !.calls = Append(r.calls, [kind |-> "cat_tmpfile", arg |-> <<>>]),
              !.piped = r.tmpfile,
              !.pc = "report"]

\* print("Executed %d deletes in %s seconds." ...)
do_report(r, e) ==
    [r EXCEPT !.stdout = Append(r.stdout, r.nbr_deletes),
              !.pc = "done"]

----------------------------------------------------------------------------
(* The steps of main() and when each is taken. *)

at_table_line(r) ==
    r.pc = "table_loop" /\ is_table_line(Split(r.table_list[r.ti], PIPE))

at_other_line(r) ==
    r.pc = "table_loop" /\ ~is_table_line(Split(r.table_list[r.ti], PIPE))

at_row(r, e) ==
    r.pc = "row_loop"
    /\ next_row_index(e.valuefile, r.line_num, csv_delimiter(r.args)) # 0

at_end_of_file(r, e) ==
    r.pc = "row_loop"
    /\ next_row_index(e.valuefile, r.line_num, csv_delimiter(r.args)) = 0

Terminated(r) == r.pc \in {"done", "crashed"}

\* The one step a run takes from r (a terminated run stays where it is).
Step(r, e) ==
    IF r.pc = "check_args" THEN do_check_args(r, e)
    ELSE IF r.pc = "show_tables" THEN do_show_tables(r, e)
    ELSE IF at_table_line(r) THEN do_describe_table(r, e)
    ELSE IF at_other_line(r) THEN do_skip_table_line(r, e)
    ELSE IF r.pc = "generate_deletes" /\ ~columns_found(r.descriptions, r.args)
        THEN do_table_not_found(r, e)
    ELSE IF r.pc = "generate_deletes" THEN do_open_files(r, e)
    ELSE IF at_row(r, e) THEN do_next_row(r, e)
    ELSE IF at_end_of_file(r, e) THEN do_close_files(r, e)
    ELSE IF r.pc = "execute" THEN do_execute(r, e)
    ELSE IF r.pc = "report" THEN do_report(r, e)
    ELSE r

CheckArgs ==
    /\ run.pc = "check_args"
    /\ run' = do_check_args(run, env)
    /\ UNCHANGED <<env, twin>>

ShowTables ==
    /\ run.pc = "show_tables"
    /\ run' = do_show_tables(run, env)
    /\ UNCHANGED <<env, twin>>

DescribeTable ==
    /\ at_table_line(run)
    /\ run' = do_describe_table(run, env)
    /\ UNCHANGED <<env, twin>>

SkipTableLine ==
    /\ at_other_line(run)
    /\ run' = do_skip_table_line(run, env)
    /\ UNCHANGED <<env, twin>>

TableNotFound ==
    /\ run.pc = "generate_deletes"
    /\ ~columns_found(run.descriptions, run.args)
    /\ run' = do_table_not_found(run, env)
    /\ UNCHANGED <<env, twin>>

OpenFiles ==
    /\ run.pc = "generate_deletes"
    /\ columns_found(run.descriptions, run.args)
    /\ run' = do_open_files(run, env)
    /\ UNCHANGED <<env, twin>>

NextRow ==
    /\ at_row(run, env)
    /\ run' = do_next_row(run, env)
    /\ UNCHANGED <<env, twin>>

CloseFiles ==
    /\ at_end_of_file(run, env)
    /\ run' = do_close_files(run, env)
    /\ UNCHANGED <<env, twin>>

Execute ==
    /\ run.pc = "execute"
    /\ run' = do_execute(run, env)
    /\ UNCHANGED <<env, twin>>

Report ==
    /\ run.pc = "report"
    /\ run' = do_report(run, env)
    /\ UNCHANGED <<env, twin>>

----------------------------------------------------------------------------
(* Initial states.  A run that is given all three required arguments and   *)
(* an existing file meets any environment; any other run ends before it    *)
(* looks at the environment, which is then the plain one.                  *)

PlainEnv ==
    [isfile |-> TRUE,
     valuefile |-> << <<"a", PIPE, "b">>, <<"1", PIPE, "x">> >>,
     tmpfile |-> <<>>,
     show_tables |-> << <<"s", PIPE, SPACE, "t", SPACE>> >>,
     show_table |-> (n_t :> << <<"a", PIPE, "k", PIPE>> \o s_int,
                               <<"b", PIPE, "k", PIPE>> \o s_char >>)
                    @@ (n_u :> << <<"a", PIPE, "k", PIPE>> \o s_char >>),
     reverse_keys |-> FALSE]

RequiredGiven(a) == a.filename # None /\ a.table # None /\ a.database # None

EnvsFor(a) ==
    {e \in Envs : \/ RequiredGiven(a) /\ e.isfile
                  \/ [e EXCEPT !.isfile = TRUE] = PlainEnv}

NoTwin == [pc |-> "off"]

Init ==
    \E a \in Args : \E e \in EnvsFor(a) :
        /\ env = e
        /\ run = InitRun(a, e)
        /\ twin = NoTwin

Next ==
    \/ CheckArgs
    \/ ShowTables
    \/ DescribeTable
    \/ SkipTableLine
    \/ TableNotFound
    \/ OpenFiles
    \/ NextRow
    \/ CloseFiles
    \/ Execute
    \/ Report

Spec == Init /\ [][Next]_vars

----------------------------------------------------------------------------
(* Two runs in the same environment whose arguments differ only in the     *)
(* separator, taking their steps together.                                 *)

InitSep ==
    \E a \in Args : \E e \in EnvsFor(a) : \E p \in Separators \ {a.separator} :
        /\ env = e
        /\ run = InitRun(a, e)
        /\ twin = InitRun([a EXCEPT !.separator = p], e)

PairStep ==
    /\ ~(Terminated(run) /\ Terminated(twin))
    /\ run' = Step(run, env)
    /\ twin' = Step(twin, env)
    /\ UNCHANGED env

SpecSep == InitSep /\ [][PairStep]_vars

----------------------------------------------------------------------------
(* Vocabulary of the properties. *)

Range(q) == {q[i] : i \in 1..Len(q)}

ExecCalls(r) == {i \in 1..Len(r.calls) : r.calls[i].kind = "cat_tmpfile"}

\* The run printed its final message.
Reported(r) == r.pc = "done" /\ r.stdout # <<>>

\* The run is past open(tmpfile, "w"): the file holds its statements only.
Generating(r) ==
    r.pc \in {"row_loop", "execute", "report"} \/ Reported(r) \/ r.error = "KeyError"

\* A required argument is missing, or the file is.
MissingRequired ==
    \/ ~(run.args.filename = n_f /\ env.isfile)
    \/ run.args.table = None
    \/ run.args.database = None

\* The m-th condition of a statement: the pieces after the seven of
\* "DELETE FROM db.schema.table WHERE ", four to a condition.
NumConds(stmt) == (Len(stmt) - 7) \div 4
CondKey(stmt, m) == stmt[4 * m + 4]
CondEq(stmt, m) == stmt[4 * m + 5]
CondVal(stmt, m) == stmt[4 * m + 6]
CondEnd(stmt, m) == stmt[4 * m + 7]

\* How a value of a row reads in a statement.
Shown(value) == IF value = None THEN s_None ELSE value

Quoted(text) == <<"'">> \o text \o <<"'">>

----------------------------------------------------------------------------
(* C1: whenever a required argument is missing (no filename, a filename    *)
(* that names no existing file, no table or no database), the run stops    *)
(* after argument validation: no subprocess call is made, no row is read   *)
(* and nothing is written to the temporary file.                           *)
C1_MissingArgsAbortBeforeAnyCall ==
    MissingRequired =>
        /\ run.pc \in {"check_args", "done"}
        /\ run.calls = <<>>
        /\ run.rows = <<>>
        /\ run.tmpfile = env.tmpfile
        /\ run.nbr_deletes = 0
        /\ run.stdout = <<>>

C1_Witness ==
    /\ MissingRequired
    /\ run.pc = "done"
    /\ run.stderr # <<>>
    /\ run.args.database = None

----------------------------------------------------------------------------
(* C2: in every statement written, the value of every column of the row    *)
(* is unquoted exactly when the discovered type of the column contains     *)
(* "int" or "double", and wrapped in single quotes otherwise.              *)
C2_QuotedUnlessNumeric ==
    Generating(run) =>
        \A i \in 1..Len(run.tmpfile) :
            LET stmt == run.tmpfile[i]
                values == run.rows[i]
            IN  \A m \in 1..NumConds(stmt) :
                    LET key == CondKey(stmt, m)
                        numeric == \/ Contains(s_int, run.columns[key])
                                   \/ Contains(s_double, run.columns[key])
                    IN  /\ key \in DOMAIN values
                        /\ numeric => CondVal(stmt, m) = Shown(values[key])
                        /\ ~numeric => CondVal(stmt, m) = Quoted(Shown(values[key]))

C2_Witness ==
    /\ Generating(run)
    /\ \E i \in 1..Len(run.tmpfile) :
           LET stmt == run.tmpfile[i]
           IN  /\ NumConds(stmt) = 2
               /\ \E m, n \in 1..2 :
                      /\ Contains(s_double, run.columns[CondKey(stmt, m)])
                      /\ CondVal(stmt, m) = run.rows[i][CondKey(stmt, m)]
                      /\ run.columns[CondKey(stmt, n)] = s_char
                      /\ CondVal(stmt, n) = Quoted(run.rows[i][CondKey(stmt, n)])

----------------------------------------------------------------------------
(* C8: every statement written for a row is "DELETE FROM db.schema.table   *)
(* WHERE " with the given database, schema and table, then one condition   *)
(* "key = value" for each column of the row, each column once, joined by   *)
(* " AND " with none leading or trailing, then ";".                        *)
C8_StatementForm ==
    Generating(run) =>
        \A i \in 1..Len(run.tmpfile) :
            LET stmt == run.tmpfile[i]
                values == run.rows[i]
                n == Cardinality(DOMAIN values)
            IN  /\ Len(stmt) = 7 + 4 * n
                /\ n >= 1
                /\ SubSeq(stmt, 1, 7) =
                       << <<"DELETE FROM ">>, run.args.database, <<".">>,
                          run.args.schema, <<".">>, run.args.table, <<" WHERE ">> >>
                /\ {CondKey(stmt, m) : m \in 1..n} = DOMAIN values
                /\ \A m \in 1..n : CondEq(stmt, m) = <<" = ">>
                /\ \A m \in 1..(n - 1) : CondEnd(stmt, m) = <<" AND ">>
                /\ CondEnd(stmt, n) = <<";\n">>

C8_Witness ==
    /\ Reported(run)
    /\ \E i \in 1..Len(run.tmpfile) :
           /\ NumConds(run.tmpfile[i]) = 2
           /\ CondEnd(run.tmpfile[i], 1) = <<" AND ">>
           /\ CondKey(run.tmpfile[i], 1) # CondKey(run.tmpfile[i], 2)

----------------------------------------------------------------------------
LinesAfterHeader == IF Len(env.valuefile) = 0 THEN 0 ELSE Len(env.valuefile) - 1

NonBlankLinesAfterHeader ==
    Cardinality({i \in 2..Len(env.valuefile) : env.valuefile[i] # <<>>})

----------------------------------------------------------------------------
FullColumnLines(table_name) ==
    IF table_name \in DOMAIN env.show_table
    THEN {l \in Range(env.show_table[table_name]) : Len(Split(l, PIPE)) >= 3}
    ELSE {}

(* C4: a line of the table list with fewer than 2 fields and a line of a   *)
(* table description with fewer than 3 fields is skipped: the run does not *)
(* fail on it and it adds nothing to the schema map (every column of the   *)
(* map comes from a description line of at least 3 fields).                *)
C4_ShortLinesSkipped ==
    /\ run.error # "IndexError"
    /\ \A sn \in DOMAIN run.descriptions :
           \A tn \in DOMAIN run.descriptions[sn] :
               \A cn \in DOMAIN run.descriptions[sn][tn] :
                   \E l \in FullColumnLines(tn) : Strip(Split(l, PIPE)[1]) = cn

----------------------------------------------------------------------------
AfterDiscovery(r) ==
    /\ r.calls # <<>>
    /\ r.pc \notin {"show_tables", "table_loop"}
    /\ r.error # "IndexError"

TableInMap(r) ==
    /\ r.args.schema \in DOMAIN r.descriptions
    /\ r.args.table \in DOMAIN r.descriptions[r.args.schema]

(* C5: when, after schema discovery, the schema map has no entry for the   *)
(* requested schema and table, generate_deletes reports the error and      *)
(* returns: the input file is not read, nothing is written to the          *)
(* temporary file and the execution call is not made.                      *)
C5_TableNotFoundReturns ==
    (AfterDiscovery(run) /\ ~TableInMap(run)) =>
        /\ run.pc \in {"generate_deletes", "done"}
        /\ run.pc = "done" => run.stderr = <<"Table not found.">>
        /\ run.rows = <<>>
        /\ run.line_num = 0
        /\ run.tmpfile = env.tmpfile
        /\ ~run.deletefile_open
        /\ ExecCalls(run) = {}
        /\ run.stdout = <<>>

C5_Witness ==
    /\ AfterDiscovery(run)
    /\ ~TableInMap(run)
    /\ run.pc = "done"
    /\ run.args.schema \in DOMAIN run.descriptions
    /\ env.tmpfile # <<>>
    /\ Len(env.valuefile) > 1

----------------------------------------------------------------------------
(* C6, as stated: a run that passes validation, finds the table and        *)
(* reports has made exactly three subprocess calls: list tables, describe  *)
(* table, execute.                                                         *)
C6_Original_ThreeCalls ==
    Reported(run) =>
        /\ Len(run.calls) = 3
        /\ run.calls[1].kind = "show_tables"
        /\ run.calls[2].kind = "show_table"
        /\ run.calls[3].kind = "cat_tmpfile"

ListedTables ==
    {i \in 1..Len(env.show_tables) : PIPE \in Range(env.show_tables[i])}

(* C6, amended: once schema discovery is over the run has made one         *)
(* list-tables call followed by one describe-table call for every line of  *)
(* the table list that has at least two fields, in the order of the list;  *)
(* a run that reports has made exactly one more call, the execution.       *)
C6_OneDescribePerListedTable ==
    AfterDiscovery(run) =>
        LET n == Cardinality(ListedTables)
        IN  /\ Len(run.calls) >= 1 + n
            /\ run.calls[1] = [kind |-> "show_tables", arg |-> <<run.args.database>>]
            /\ \A j \in 2..(1 + n) :
                   /\ run.calls[j].kind = "show_table"
                   /\ \E i \in ListedTables :
                          /\ Cardinality({k \in ListedTables : k <= i}) = j - 1
                          /\ run.calls[j].arg[3] = Strip(Split(env.show_tables[i], PIPE)[2])
            /\ \A j \in (2 + n)..Len(run.calls) : run.calls[j].kind = "cat_tmpfile"
            /\ Reported(run) => Len(run.calls) = 2 + n

C6_Witness ==
    /\ Reported(run)
    /\ Len(run.calls) = 4
    /\ run.calls[2].arg[3] # run.calls[3].arg[3]

----------------------------------------------------------------------------
(* C7: the tool is invoked for execution at most once, never while the     *)
(* temporary file is open; when it is invoked the reader is exhausted, the *)
(* file holds one statement per row read and is what the tool receives;    *)
(* a run that reports has invoked it exactly once.                         *)
C7_ExecutedOnceAfterAllWritten ==
    /\ Cardinality(ExecCalls(run)) <= 1
    /\ run.deletefile_open => ExecCalls(run) = {}
    /\ ExecCalls(run) # {} =>
           /\ ExecCalls(run) = {Len(run.calls)}
           /\ ~run.deletefile_open
           /\ run.line_num = Len(env.valuefile)
           /\ Len(run.tmpfile) = Len(run.rows)
           /\ Len(run.rows) = NonBlankLinesAfterHeader
           /\ run.piped = run.tmpfile
    /\ Reported(run) => Cardinality(ExecCalls(run)) = 1

C7_Witness ==
    /\ run.pc = "report"
    /\ Len(run.piped) = 2
    /\ ExecCalls(run) = {Len(run.calls)}

----------------------------------------------------------------------------
UnknownKey(values) == \E k \in DOMAIN values : k \notin DOMAIN run.columns

\* The same, told from the input file: a header field the description
\* lacks, or a line with more fields than the header.
HeaderFields == Split(env.valuefile[1], PIPE)

InputHasUnknownColumn ==
    /\ NonBlankLinesAfterHeader > 0
    /\ \/ env.valuefile[1] = <<>>
       \/ \E f \in Range(HeaderFields) : f \notin DOMAIN run.columns
       \/ \E i \in 2..Len(env.valuefile) :
              Len(Split(env.valuefile[i], PIPE)) > Len(HeaderFields)

(* C10: when a row read has a column the discovered description of the    *)
(* table lacks, generate_deletes has failed with KeyError at that row and  *)
(* no execution call is made (the temporary file holds the statements of   *)
(* the rows before it); and no run executes whose input has such a row.    *)
C10_UnknownColumnFailsBeforeExecution ==
    /\ \A i \in 1..Len(run.rows) :
           UnknownKey(run.rows[i]) =>
               /\ i = Len(run.rows)
               /\ run.pc = "crashed"
               /\ run.error = "KeyError"
               /\ ExecCalls(run) = {}
               /\ Len(run.tmpfile) = i - 1
               /\ run.stdout = <<>>
    /\ (Generating(run) /\ InputHasUnknownColumn) =>
           /\ run.pc \in {"row_loop", "crashed"}
           /\ ExecCalls(run) = {}

C10_Witness ==
    /\ run.pc = "crashed"
    /\ run.error = "KeyError"
    /\ ~run.deletefile_open
    /\ Len(run.rows) = 1
    /\ <<"b">> \in DOMAIN run.rows[1]
    /\ <<"b">> \notin DOMAIN run.columns
    /\ NonBlankLinesAfterHeader = 2

\* The failure at a later row, the statements of the earlier rows written.
C10_LaterRow ==
    /\ run.pc = "crashed"
    /\ run.error = "KeyError"
    /\ Len(run.tmpfile) = 1
    /\ Len(run.rows) = 2
    /\ UnknownKey(run.rows[2])

----------------------------------------------------------------------------
====
